---- MODULE Spec2Model ----
(***************************************************************************)
(* State-machine model of the realtime voice client (components/client.py, *)
(* components/microphone.py, components/tools.py, components/events.py).   *)
(*                                                                         *)
(* Three kinds of execution contexts are modelled:                         *)
(*   - the main coroutine RealtimeAPI.run (mpc),                           *)
(*   - one inbound task process_ws_messages per opened connection (wpc),   *)
(*   - the audio device thread running AMicrophone._callback (cbpc).       *)
(* Coroutines interleave only at awaits; the device thread interleaves     *)
(* everywhere, so writes to the microphone flags are separate steps.       *)
(* The environment is the remote agent (ServerEmit, ServerClose), the      *)
(* capture device (callback_enter) and the user (Interrupt).               *)
(***************************************************************************)
EXTENDS Integers, Sequences, FiniteSets, TLC

\* ------------------------------------------------------------------ bounds
\* connections opened per run, unread messages buffered per connection
MaxConnects == 2
MaxInbox == 1
\* per specification: inbound events sent by the agent, frames delivered
LifeMaxEvents == 2
LifeMaxFrames == 1
CallMaxEvents == 4
ErrMaxEvents == 4
SessMaxEvents == 2
SessMaxFrames == 1
TurnMaxEvents == 3
TurnMaxFrames == 2
FairMaxEvents == 2
ReplyMaxEvents == 4
ReplyMaxInbox == 2

\* --------------------------------------------------------------- constants
RECONNECT_DELAY == 1
None == "None"
KEEPALIVE == "keepalive ping timeout"
BUFFER_EMPTY == "buffer is empty"
ACTIVE_RESPONSE == "Conversation already has an active response"

SESSION_UPDATE == "session.update"
CONVERSATION_ITEM_CREATE == "conversation.item.create"
RESPONSE_CREATE == "response.create"
INPUT_AUDIO_BUFFER_APPEND == "input_audio_buffer.append"
INPUT_AUDIO_BUFFER_COMMIT == "input_audio_buffer.commit"

SESSION_CREATED == "session.created"
RESPONSE_CREATED == "response.created"
RESPONSE_DONE == "response.done"
RESPONSE_TEXT_DELTA == "response.text.delta"
RESPONSE_AUDIO_DELTA == "response.audio.delta"
RESPONSE_OUTPUT_ITEM_ADDED == "response.output_item.added"
RESPONSE_FUNCTION_CALL_ARGUMENTS_DELTA == "response.function_call_arguments.delta"
RESPONSE_FUNCTION_CALL_ARGUMENTS_DONE == "response.function_call_arguments.done"
INPUT_AUDIO_BUFFER_SPEECH_STARTED == "input_audio_buffer.speech_started"
INPUT_AUDIO_BUFFER_SPEECH_STOPPED == "input_audio_buffer.speech_stopped"
RATE_LIMITS_UPDATED == "rate_limits.updated"
ERROR == "error"

\* the keys of tools.function_map
function_map == {"get_current_time", "get_random_number"}

\* ---------------------------------------------------------------- helpers
RECURSIVE Concat(_)
Concat(ss) == IF ss = <<>> THEN <<>> ELSE Head(ss) \o Concat(Tail(ss))

Contains(msg, phrase) == \E i \in 1..Len(msg) : msg[i] = phrase

\* base64.b64encode over bytes 0..255; symbols 0..63, 64 is the pad "="
RECURSIVE b64encode(_)
b64encode(bs) ==
  IF bs = <<>> THEN <<>>
  ELSE IF Len(bs) = 1
       THEN <<bs[1] \div 4, (bs[1] % 4) * 16, 64, 64>>
  ELSE IF Len(bs) = 2
       THEN <<bs[1] \div 4, (bs[1] % 4) * 16 + bs[2] \div 16, (bs[2] % 16) * 4, 64>>
  ELSE <<bs[1] \div 4, (bs[1] % 4) * 16 + bs[2] \div 16,
         (bs[2] % 16) * 4 + bs[3] \div 64, bs[3] % 64>>
       \o b64encode(SubSeq(bs, 4, Len(bs)))

\* binascii.a2b_base64 (non-strict): st = [q: quad position, left: leftover
\* bits, pads: pad run, out: bytes]; symbols above 64 are skipped; a pad run
\* completing a quad stops the parse; a dangling quad is an error
RECURSIVE a2b_base64(_, _)
a2b_base64(cs, st) ==
  IF cs = <<>>
  THEN IF st.q # 0 THEN [ok |-> FALSE, out |-> <<>>] ELSE [ok |-> TRUE, out |-> st.out]
  ELSE LET c == Head(cs) IN
       IF c = 64
       THEN IF st.q >= 2 /\ st.q + st.pads + 1 >= 4
            THEN [ok |-> TRUE, out |-> st.out]
            ELSE a2b_base64(Tail(cs), [st EXCEPT !.pads = IF st.q >= 2 THEN @ + 1 ELSE @])
       ELSE IF c > 64
       THEN a2b_base64(Tail(cs), st)
       ELSE a2b_base64(Tail(cs),
              CASE st.q = 0 -> [q |-> 1, left |-> c, pads |-> 0, out |-> st.out]
                [] st.q = 1 -> [q |-> 2, left |-> c % 16, pads |-> 0,
                                out |-> Append(st.out, st.left * 4 + c \div 16)]
                [] st.q = 2 -> [q |-> 3, left |-> c % 4, pads |-> 0,
                                out |-> Append(st.out, st.left * 16 + c \div 4)]
                [] OTHER    -> [q |-> 0, left |-> 0, pads |-> 0,
                                out |-> Append(st.out, st.left * 64 + c)])

b64decode(cs) == a2b_base64(cs, [q |-> 0, left |-> 0, pads |-> 0, out |-> <<>>])

Conns == 1..(MaxConnects + 1)

VARIABLES
  \* AMicrophone
  is_recording, is_receiving, queue, micOpen,
  \* device thread position in _callback
  cbpc, cbFrame, frames,
  \* RealtimeAPI fields
  prompts, exit_event, assistant_reply, audio_chunks, response_in_progress,
  function_call, function_call_args, response_start_time,
  \* main coroutine: position, pending exception, connection number, drain local
  mpc, exc, cid, data,
  \* per connection: handle state, received-but-unread messages, sent messages,
  \* inbound task position, messages the running handler has still to send;
  \* cur is the type of the event the task's latest handler was started for
  \* and whether that handler went on to execute_function_call
  ws, inbox, cur, sent, wpc, outq,
  \* environment budget
  emitted,
  \* observation (history) variables
  shutlog, hsent, diag, deltaLog, lastCall, hot, puts, snaps, drains,
  played

micVars == <<is_recording, is_receiving, queue, micOpen>>
cbVars == <<cbpc, cbFrame, frames>>
apiVars == <<exit_event, assistant_reply, audio_chunks, response_in_progress,
             function_call, function_call_args, response_start_time>>
mainVars == <<mpc, exc, cid, data>>
connVars == <<ws, inbox, cur, sent, wpc, outq>>
obsVars == <<shutlog, hsent, diag, deltaLog, lastCall, hot, puts, snaps, drains,
            played>>
vars == <<is_recording, is_receiving, queue, micOpen, cbpc, cbFrame, frames,
          prompts, exit_event, assistant_reply, audio_chunks,
          response_in_progress, function_call, function_call_args,
          response_start_time, mpc, exc, cid, data, ws, inbox, cur, sent, wpc,
          outq, emitted, shutlog, hsent, diag, deltaLog, lastCall, hot, puts,
          snaps, drains, played>>

\* main(): args.prompts.split("|") if args.prompts else None (<<>> is None)
PromptChoices == {<<>>, <<"p1", "p2">>}

\* an outbound wire event (json.dumps of a dict with a type discriminator)
Msg(t) == [type |-> t, item |-> "", role |-> "", call_id |-> "",
           output |-> <<>>, audio |-> <<>>, text |-> <<>>]

\* lastCall: the latest execute_function_call: the task that ran it, the
\* pending call, the deltas logged since its item, the argument text and
\* the decoded arguments used, whether a function was invoked and failed
NoCall == [task |-> 0, name |-> "", call_id |-> "", deltas |-> <<>>, argtext |-> <<>>,
           args |-> "", invoked |-> FALSE, failed |-> FALSE, result |-> <<>>]

\* RealtimeAPI.__init__ and AMicrophone.__init__; main() passes prompts or None
Init ==
  /\ is_recording = FALSE /\ is_receiving = FALSE /\ queue = <<>> /\ micOpen = TRUE
  /\ cbpc = "idle" /\ cbFrame = 0 /\ frames = 0
  /\ prompts \in PromptChoices
  /\ exit_event = FALSE
  /\ assistant_reply = <<>> /\ audio_chunks = <<>>
  /\ response_in_progress = FALSE
  /\ function_call = <<>> /\ function_call_args = <<>>
  /\ response_start_time = None
  /\ mpc = "connect" /\ exc = "none" /\ cid = 0 /\ data = <<>>
  /\ ws = [c \in Conns |-> "none"]
  /\ inbox = [c \in Conns |-> <<>>]
  /\ cur = [c \in Conns |-> [type |-> "", call |-> FALSE]]
  /\ sent = [c \in Conns |-> <<>>]
  /\ wpc = [c \in Conns |-> "none"]
  /\ outq = [c \in Conns |-> <<>>]
  /\ emitted = 0
  /\ shutlog = <<>> /\ hsent = [c \in Conns |-> <<>>] /\ diag = {} /\ deltaLog = <<>>
  /\ lastCall = NoCall /\ hot = {} /\ puts = <<>> /\ snaps = {}
  /\ drains = <<>> /\ played = <<>>

\* ------------------------------------------------------- AMicrophone
\* _callback, first test: the device hands over a frame; is_recording is read
callback_enter(maxFrames) ==
  /\ micOpen /\ cbpc = "idle" /\ frames < maxFrames
  /\ frames' = frames + 1
  /\ cbFrame' = frames + 1
  /\ cbpc' = IF is_recording THEN "chk" ELSE "idle"
  /\ UNCHANGED <<micVars, prompts, apiVars, mainVars, connVars, emitted, obsVars>>

callback_check_ignores_receiving ==
  /\ cbpc = "chk"
  /\ cbpc' = "put"
  /\ UNCHANGED <<micVars, cbFrame, frames, prompts, apiVars, mainVars, connVars,
                 emitted, obsVars>>

\* _callback, second test: is_receiving is read
callback_check ==
  /\ cbpc = "chk"
  /\ cbpc' = IF is_receiving THEN "idle" ELSE "put"
  /\ UNCHANGED <<micVars, cbFrame, frames, prompts, apiVars, mainVars, connVars,
                 emitted, obsVars>>

\* _callback: queue.put(in_data); hot records the frames put while receiving,
\* puts every frame put, snaps the queue contents seen during a drain
callback_put ==
  /\ cbpc = "put"
  /\ queue' = Append(queue, <<cbFrame>>)
  /\ hot' = IF is_receiving THEN hot \cup {cbFrame} ELSE hot
  /\ puts' = Append(puts, cbFrame)
  /\ snaps' = IF mpc = "drain" THEN snaps \cup {Concat(queue')} ELSE snaps
  /\ cbpc' = "idle"
  /\ UNCHANGED <<is_recording, is_receiving, micOpen, cbFrame, frames, prompts,
                 apiVars, mainVars, connVars, emitted, shutlog, hsent, diag,
                 deltaLog, lastCall, drains, played>>

\* ------------------------------------------------------- connection handle
\* str(e) of the ConnectionClosedError raised after closure k
CloseReason(k) ==
  IF k = "ka" THEN <<"sent 1011 (internal error)", KEEPALIVE>>
  ELSE <<"no close frame received or sent">>

\* websocket.send on a closed handle raises ConnectionClosedError (reason kept)
\* or ConnectionClosedOK; the value is the except clause of run() it reaches
SendExc(c) ==
  IF ws[c] \in {"ka", "err"}
  THEN IF Contains(CloseReason(ws[c]), KEEPALIVE) THEN "ka" ELSE "cce"
  ELSE "other"

\* websocket.close(): closes an open handle normally, no-op otherwise
Closed(c) == IF ws[c] = "open" THEN [ws EXCEPT ![c] = "ok"] ELSE ws

\* ------------------------------------------------------- inbound events
NoItem == [type |-> "", name |-> "", call_id |-> ""]

\* an inbound wire message; json = FALSE is a message json.loads rejects;
\* hasDelta tells whether the "delta" key is present
Ev(t) == [type |-> t, item |-> NoItem, delta |-> <<>>, hasDelta |-> FALSE,
          audio |-> <<>>, msg |-> <<>>, json |-> TRUE]

FunctionItems == {[type |-> "function_call", name |-> "get_current_time", call_id |-> "call_1"],
                  [type |-> "function_call", name |-> "launch_rocket", call_id |-> "call_2"]}
MessageItem == [type |-> "message", name |-> "", call_id |-> ""]
ArgDeltas == {<<"{">>, <<"}">>, <<"k", "}">>}
TextDeltas == {<<"Hi">>}
AudioDeltas == {b64encode(<<7>>), <<0>>}
ErrorMessages == {<<"Error committing input audio buffer:", BUFFER_EMPTY>>,
                  <<ACTIVE_RESPONSE, "resp_1">>,
                  <<BUFFER_EMPTY, ACTIVE_RESPONSE>>,
                  <<"Invalid value">>,
                  <<>>}

FunctionCallEvents ==
  {[Ev(RESPONSE_OUTPUT_ITEM_ADDED) EXCEPT !.item = i] : i \in FunctionItems \cup {MessageItem, NoItem}}
  \cup {[Ev(RESPONSE_FUNCTION_CALL_ARGUMENTS_DELTA) EXCEPT !.delta = d, !.hasDelta = TRUE] : d \in ArgDeltas}
  \cup {Ev(RESPONSE_FUNCTION_CALL_ARGUMENTS_DELTA), Ev(RESPONSE_FUNCTION_CALL_ARGUMENTS_DONE)}
TurnEvents ==
  {Ev(RESPONSE_CREATED), Ev(RESPONSE_DONE), Ev(INPUT_AUDIO_BUFFER_SPEECH_STARTED),
   Ev(INPUT_AUDIO_BUFFER_SPEECH_STOPPED), Ev(RATE_LIMITS_UPDATED)}
ContentEvents ==
  {[Ev(RESPONSE_TEXT_DELTA) EXCEPT !.delta = d, !.hasDelta = TRUE] : d \in TextDeltas}
  \cup {[Ev(RESPONSE_AUDIO_DELTA) EXCEPT !.audio = a, !.hasDelta = TRUE] : a \in AudioDeltas}
  \cup {Ev(RESPONSE_TEXT_DELTA), Ev(RESPONSE_AUDIO_DELTA)}
ErrorEvents == {[Ev(ERROR) EXCEPT !.msg = m] : m \in ErrorMessages}
OddEvents == {Ev(SESSION_CREATED), Ev(None), [Ev("") EXCEPT !.json = FALSE]}
AllEvents == FunctionCallEvents \cup TurnEvents \cup ContentEvents \cup ErrorEvents \cup OddEvents

\* the tags _register_event_handlers registers
Registered == {RESPONSE_CREATED, RESPONSE_OUTPUT_ITEM_ADDED,
               RESPONSE_FUNCTION_CALL_ARGUMENTS_DELTA,
               RESPONSE_FUNCTION_CALL_ARGUMENTS_DONE, RESPONSE_TEXT_DELTA,
               RESPONSE_AUDIO_DELTA, RESPONSE_DONE, ERROR,
               INPUT_AUDIO_BUFFER_SPEECH_STARTED, INPUT_AUDIO_BUFFER_SPEECH_STOPPED,
               RATE_LIMITS_UPDATED}

get_handler_falls_back(event_type) ==
  IF event_type \in Registered THEN event_type ELSE RESPONSE_CREATED

\* EventHandlers.get_handler: the registered handler's tag, or None
get_handler(event_type) == IF event_type \in Registered THEN event_type ELSE None

\* the remote agent sends one more event on an open connection; the
\* connection buffers up to maxInbox messages the task has not yet received
ServerEmitBuffered(E, maxEvents, maxInbox) ==
  \E c \in Conns, e \in E :
    /\ ws[c] = "open" /\ emitted < maxEvents /\ Len(inbox[c]) < maxInbox
    /\ inbox' = [inbox EXCEPT ![c] = Append(@, e)]
    /\ emitted' = emitted + 1
    /\ UNCHANGED <<micVars, cbVars, prompts, apiVars, mainVars, ws, cur, sent, wpc,
                   outq, obsVars>>

ServerEmit(E, maxEvents) == ServerEmitBuffered(E, maxEvents, MaxInbox)

\* the connection is lost: keepalive ping timeout ("ka"), another abnormal
\* closure ("err") or a normal close by the peer ("ok"); K is the set of
\* closures the environment may produce
ServerClose(K) ==
  \E c \in Conns, k \in K :
    /\ ws[c] = "open"
    /\ ws' = [ws EXCEPT ![c] = k]
    /\ UNCHANGED <<micVars, cbVars, prompts, apiVars, mainVars, inbox, cur, sent, wpc, outq,
                   emitted, obsVars>>

\* WS_PING_INTERVAL = 30 and WS_PING_TIMEOUT = 10: the library's keepalive
\* task closes the connection when a ping sent after the interval stays
\* unanswered for the timeout, so this closure is seen only by a session that
\* has reached the polling loop; run() sends session.update and the prompts
\* without sleeping
KeepaliveTimeout ==
  /\ mpc = "poll"
  /\ ServerClose({"ka"})

\* ------------------------------------------------------- event loop
\* positions in which a coroutine is running (not suspended at an await):
\* no other coroutine of the loop takes a step meanwhile
MainRunning == mpc \in {"start", "drain", "sua_finally", "finally"}
TaskRunning(c) == wpc[c] = "rc2"
MainMayRun == \A c \in Conns : ~TaskRunning(c)
TaskMayRun(c) == ~MainRunning /\ \A d \in Conns \ {c} : ~TaskRunning(d)

Take_while_suspended(c, h) ==
  /\ TaskMayRun(c) /\ wpc[c] \in {"recv", "playing"} /\ inbox[c] # <<>>
  /\ Head(inbox[c]).json
  /\ get_handler(Head(inbox[c]).type) = h

\* process_ws_messages: recv() returned a message that json.loads accepts and
\* whose type selects handler h
Take(c, h) ==
  /\ TaskMayRun(c) /\ wpc[c] = "recv" /\ inbox[c] # <<>>
  /\ Head(inbox[c]).json
  /\ get_handler(Head(inbox[c]).type) = h
Taken(c) ==
  /\ inbox' = [inbox EXCEPT ![c] = Tail(@)]
  /\ cur' = [cur EXCEPT ![c] =
               [type |-> Head(inbox[c]).type,
                call |-> /\ Head(inbox[c]).json
                         /\ Head(inbox[c]).type = RESPONSE_FUNCTION_CALL_ARGUMENTS_DONE
                         /\ function_call # <<>>]]
\* hsent[c] keeps what the handler running in task c has sent so far
NoSend(c) == hsent' = [hsent EXCEPT ![c] = <<>>]

\* ------------------------------------------------------- RealtimeAPI.run
\* websockets.connect(...): a handle is opened, or the attempt raises
connect ==
  /\ MainMayRun
  /\ mpc = "connect"
  /\ \/ /\ cid < MaxConnects
        /\ cid' = cid + 1
        /\ ws' = [ws EXCEPT ![cid + 1] = "open"]
        /\ mpc' = "init"
        /\ exc' = "none"
     \/ /\ cid' = cid + 1
        /\ ws' = ws
        /\ mpc' = "finally"
        /\ exc' = "other"
  /\ shutlog' = <<>>
  /\ UNCHANGED <<micVars, cbVars, prompts, apiVars, data, inbox, cur, sent, wpc, outq,
                 emitted, hsent, diag, deltaLog, lastCall, hot, puts, snaps, drains, played>>

initialize_session_skips_update ==
  /\ MainMayRun
  /\ mpc = "init"
  /\ IF ws[cid] = "open"
     THEN mpc' = "start" /\ exc' = exc
     ELSE mpc' = "aexit" /\ exc' = SendExc(cid)
  /\ UNCHANGED <<micVars, cbVars, prompts, apiVars, cid, data, ws, inbox, cur, sent, wpc,
                 outq, emitted, obsVars>>

\* initialize_session: one session.update, no acknowledgment awaited
initialize_session ==
  /\ MainMayRun
  /\ mpc = "init"
  /\ IF ws[cid] = "open"
     THEN /\ sent' = [sent EXCEPT ![cid] = Append(@, Msg(SESSION_UPDATE))]
          /\ mpc' = "start"
          /\ exc' = exc
     ELSE /\ sent' = sent
          /\ mpc' = "aexit"
          /\ exc' = SendExc(cid)
  /\ UNCHANGED <<micVars, cbVars, prompts, apiVars, cid, data, ws, inbox, cur, wpc, outq,
                 emitted, obsVars>>

\* run lines 118-128: create the inbound task, then prompts or start_recording
start_task ==
  /\ MainMayRun
  /\ mpc = "start"
  /\ wpc' = [wpc EXCEPT ![cid] = "recv"]
  /\ IF prompts # <<>>
     THEN /\ mpc' = "prompt_item" /\ is_recording' = is_recording
     ELSE /\ mpc' = "poll" /\ is_recording' = TRUE
  /\ UNCHANGED <<is_receiving, queue, micOpen, cbVars, prompts, apiVars, exc, cid,
                 data, ws, inbox, cur, sent, outq, emitted, obsVars>>

PromptItem == [Msg(CONVERSATION_ITEM_CREATE) EXCEPT
                 !.item = "message", !.role = "user", !.text = prompts]

\* send_initial_prompts: conversation.item.create, then response.create
send_initial_prompts ==
  /\ MainMayRun
  /\ mpc \in {"prompt_item", "prompt_rc"}
  /\ IF ws[cid] = "open"
     THEN /\ sent' = [sent EXCEPT ![cid] =
                 Append(@, IF mpc = "prompt_item" THEN PromptItem
                           ELSE Msg(RESPONSE_CREATE))]
          /\ mpc' = IF mpc = "prompt_item" THEN "prompt_rc" ELSE "poll"
          /\ exc' = exc
     ELSE /\ sent' = sent
          /\ mpc' = "aexit"
          /\ exc' = SendExc(cid)
  /\ UNCHANGED <<micVars, cbVars, prompts, apiVars, cid, data, ws, inbox, cur, wpc, outq,
                 emitted, obsVars>>

poll_ignores_receiving ==
  /\ MainMayRun
  /\ mpc = "poll"
  /\ IF exit_event THEN mpc' = "sua_finally" /\ data' = data /\ snaps' = snaps
     ELSE mpc' = "drain" /\ data' = <<>> /\ snaps' = {Concat(queue)}
  /\ UNCHANGED <<micVars, cbVars, prompts, apiVars, exc, cid, connVars, emitted,
                 shutlog, hsent, diag, deltaLog, lastCall, hot, puts, drains, played>>

\* send_user_audio, loop head: exit test, sleep, then the is_receiving test
\* (a poll that finds is_receiving set only sleeps again); get_audio_data
\* starts, and snaps starts over with the queue content at that instant
poll ==
  /\ MainMayRun
  /\ mpc = "poll"
  /\ IF exit_event THEN mpc' = "sua_finally" /\ data' = data /\ snaps' = snaps
     ELSE /\ ~is_receiving
          /\ mpc' = "drain" /\ data' = <<>> /\ snaps' = {Concat(queue)}
  /\ UNCHANGED <<micVars, cbVars, prompts, apiVars, exc, cid, connVars, emitted,
                 shutlog, hsent, diag, deltaLog, lastCall, hot, puts, drains, played>>

get_audio_data_get_overwrites ==
  /\ MainMayRun
  /\ mpc = "drain" /\ queue # <<>>
  /\ data' = Head(queue)
  /\ queue' = Tail(queue)
  /\ snaps' = snaps \cup {Concat(Tail(queue))}
  /\ UNCHANGED <<is_recording, is_receiving, micOpen, cbVars, prompts, apiVars, mpc,
                 exc, cid, connVars, emitted, shutlog, hsent, diag, deltaLog, lastCall, hot, puts, drains, played>>

get_audio_data_get_prepends ==
  /\ MainMayRun
  /\ mpc = "drain" /\ queue # <<>>
  /\ data' = Head(queue) \o data
  /\ queue' = Tail(queue)
  /\ snaps' = snaps \cup {Concat(Tail(queue))}
  /\ UNCHANGED <<is_recording, is_receiving, micOpen, cbVars, prompts, apiVars, mpc,
                 exc, cid, connVars, emitted, shutlog, hsent, diag, deltaLog, lastCall, hot, puts, drains, played>>

\* get_audio_data, loop body: queue.get() while the queue is not empty
get_audio_data_get ==
  /\ MainMayRun
  /\ mpc = "drain" /\ queue # <<>>
  /\ data' = data \o Head(queue)
  /\ queue' = Tail(queue)
  /\ snaps' = snaps \cup {Concat(Tail(queue))}
  /\ UNCHANGED <<is_recording, is_receiving, micOpen, cbVars, prompts, apiVars, mpc,
                 exc, cid, connVars, emitted, shutlog, hsent, diag, deltaLog, lastCall, hot, puts, drains, played>>

AppendMsg(d) == [Msg(INPUT_AUDIO_BUFFER_APPEND) EXCEPT !.audio = b64encode(d)]

\* get_audio_data returns (queue found empty); a non-empty chunk is encoded
\* and sent as input_audio_buffer.append
send_user_audio ==
  /\ MainMayRun
  /\ mpc = "drain" /\ queue = <<>>
  /\ IF data # <<>> /\ b64encode(data) # <<>>
     THEN /\ drains' = Append(drains, data)
          /\ IF ws[cid] = "open"
             THEN /\ sent' = [sent EXCEPT ![cid] = Append(@, AppendMsg(data))]
                  /\ mpc' = "poll" /\ exc' = exc
             ELSE /\ sent' = sent
                  /\ mpc' = "sua_finally" /\ exc' = SendExc(cid)
     ELSE /\ mpc' = "poll" /\ exc' = exc /\ sent' = sent /\ drains' = drains
  /\ data' = <<>>
  /\ snaps' = {}
  /\ UNCHANGED <<micVars, cbVars, prompts, apiVars, cid, ws, inbox, cur, wpc, outq, emitted,
                 shutlog, hsent, diag, deltaLog, lastCall, hot, puts, played>>

send_user_audio_finally_keeps_flag ==
  /\ MainMayRun
  /\ mpc = "sua_finally"
  /\ is_recording' = FALSE
  /\ micOpen' = FALSE
  /\ ws' = Closed(cid)
  /\ shutlog' = shutlog \o <<"stop_recording", "mic_close", "ws_close">>
  /\ mpc' = IF exc = "none" THEN "await_task" ELSE "aexit"
  /\ UNCHANGED <<is_receiving, queue, cbVars, prompts, apiVars, exc, cid, data, inbox,
                 cur, sent, wpc, outq, emitted, hsent, diag, deltaLog, lastCall, hot,
                 puts, snaps, drains, played>>

\* send_user_audio, finally: exit_event.set(), stop_recording(), close() and
\* websocket.close(); then the pending exception propagates to run(), or
\* run() goes on to await ws_task
send_user_audio_finally ==
  /\ MainMayRun
  /\ mpc = "sua_finally"
  /\ exit_event' = TRUE
  /\ is_recording' = FALSE
  /\ micOpen' = FALSE
  /\ ws' = Closed(cid)
  /\ shutlog' = shutlog \o <<"stop_recording", "mic_close", "ws_close">>
  /\ mpc' = IF exc = "none" THEN "await_task" ELSE "aexit"
  /\ UNCHANGED <<is_receiving, queue, cbVars, prompts, assistant_reply, audio_chunks,
                 response_in_progress, function_call, function_call_args,
                 response_start_time, exc, cid, data, inbox, cur, sent, wpc, outq, emitted,
                 hsent, diag, deltaLog, lastCall, hot, puts, snaps, drains, played>>

\* run line 132, await ws_task: returns when the task ended, re-raising the
\* exception the task died with
await_ws_task ==
  /\ MainMayRun
  /\ mpc = "await_task"
  /\ wpc[cid] \in {"finished", "dead"}
  /\ exc' = IF wpc[cid] = "dead" THEN "other" ELSE "none"
  /\ mpc' = "aexit"
  /\ UNCHANGED <<micVars, cbVars, prompts, apiVars, cid, data, connVars, emitted,
                 obsVars>>

\* leaving "async with websockets.connect(...)": the context manager closes
\* the handle on every way out of the block; then the except clauses: a
\* ConnectionClosedError whose text holds the keepalive marker sleeps and
\* continues, anything else breaks
aexit ==
  /\ MainMayRun
  /\ mpc = "aexit"
  /\ ws' = Closed(cid)
  /\ shutlog' = Append(shutlog, "ws_close")
  /\ mpc' = IF exc = "ka" THEN "backoff" ELSE "finally"
  /\ UNCHANGED <<micVars, cbVars, prompts, apiVars, exc, cid, data, inbox, cur, sent, wpc,
                 outq, emitted, hsent, diag, deltaLog, lastCall, hot, puts, snaps, drains, played>>

\* run line 140: await asyncio.sleep(1), then continue
backoff ==
  /\ MainMayRun
  /\ mpc = "backoff"
  /\ mpc' = "finally"
  /\ UNCHANGED <<micVars, cbVars, prompts, apiVars, exc, cid, data, connVars, emitted,
                 obsVars>>

\* run, finally: stop_recording(), close(); then the loop continues (after
\* the keepalive branch) or run() ends
finally ==
  /\ MainMayRun
  /\ mpc = "finally"
  /\ is_recording' = FALSE
  /\ micOpen' = FALSE
  /\ shutlog' = shutlog \o <<"stop_recording", "mic_close">>
  /\ mpc' = IF exc = "ka" THEN "connect" ELSE "done"
  /\ UNCHANGED <<is_receiving, queue, cbVars, prompts, apiVars, exc, cid, data,
                 connVars, emitted, hsent, diag, deltaLog, lastCall, hot, puts, snaps, drains,
                 played>>

\* Ctrl-C while send_user_audio sleeps: KeyboardInterrupt is raised in the
\* coroutine and caught by its except clause ("none"), or the main task is
\* cancelled and CancelledError passes every except clause ("cancel")
Interrupt ==
  /\ MainMayRun
  /\ mpc = "poll"
  /\ exc' \in {"none", "cancel"}
  /\ mpc' = "sua_finally"
  /\ UNCHANGED <<micVars, cbVars, prompts, apiVars, cid, data, connVars, emitted,
                 obsVars>>

\* ------------------------------------------------------- event handlers
\* handle_response_created -> start_receiving, first write: is_receiving = True
handle_response_created(c) ==
  /\ Take(c, RESPONSE_CREATED) /\ Taken(c) /\ NoSend(c)
  /\ is_receiving' = TRUE
  /\ wpc' = [wpc EXCEPT ![c] = "rc2"]
  /\ diag' = {}
  /\ UNCHANGED <<is_recording, queue, micOpen, cbVars, prompts, apiVars, mainVars, ws,
                 sent, outq, emitted, shutlog, deltaLog, lastCall, hot, puts, snaps, drains, played>>

\* start_receiving, second write: is_recording = False; then
\* response_in_progress = True
start_receiving(c) ==
  /\ wpc[c] = "rc2"
  /\ is_recording' = FALSE
  /\ response_in_progress' = TRUE
  /\ wpc' = [wpc EXCEPT ![c] = "recv"]
  /\ UNCHANGED <<is_receiving, queue, micOpen, cbVars, prompts, exit_event,
                 assistant_reply, audio_chunks, function_call, function_call_args,
                 response_start_time, mainVars, ws, inbox, cur, sent, outq, emitted,
                 obsVars>>

handle_output_item_added_keeps_args(c) ==
  /\ Take(c, RESPONSE_OUTPUT_ITEM_ADDED) /\ Taken(c) /\ NoSend(c)
  /\ LET item == Head(inbox[c]).item IN
     IF item.type = "function_call"
     THEN /\ function_call' = <<item>>
          /\ deltaLog' = <<>>
     ELSE UNCHANGED <<function_call, deltaLog>>
  /\ diag' = {}
  /\ UNCHANGED <<micVars, cbVars, prompts, exit_event, assistant_reply, audio_chunks,
                 function_call_args, response_in_progress, response_start_time, mainVars,
                 ws, sent, wpc, outq, emitted, shutlog, lastCall, hot, puts, snaps, drains,
                 played>>

\* item = event.get("item", {}); a function_call item becomes the pending
\* call and the argument text starts over
handle_output_item_added(c) ==
  /\ Take(c, RESPONSE_OUTPUT_ITEM_ADDED) /\ Taken(c) /\ NoSend(c)
  /\ LET item == Head(inbox[c]).item IN
     IF item.type = "function_call"
     THEN /\ function_call' = <<item>>
          /\ function_call_args' = <<>>
          /\ deltaLog' = <<>>
     ELSE UNCHANGED <<function_call, function_call_args, deltaLog>>
  /\ diag' = {}
  /\ UNCHANGED <<micVars, cbVars, prompts, exit_event, assistant_reply, audio_chunks,
                 response_in_progress, response_start_time, mainVars, ws, sent, wpc,
                 outq, emitted, shutlog, lastCall, hot, puts, snaps, drains, played>>

append_delta_prepends(args, delta) == delta \o args
\* self.function_call_args += event.get("delta", "")
append_delta(args, delta) == args \o delta

\* deltaLog keeps the deltas that arrived since the last function_call item
handle_function_call_arguments_delta(c) ==
  /\ Take(c, RESPONSE_FUNCTION_CALL_ARGUMENTS_DELTA) /\ Taken(c) /\ NoSend(c)
  /\ function_call_args' = append_delta(function_call_args, Head(inbox[c]).delta)
  /\ deltaLog' = Append(deltaLog, Head(inbox[c]).delta)
  /\ diag' = {}
  /\ UNCHANGED <<micVars, cbVars, prompts, exit_event, assistant_reply, audio_chunks,
                 response_in_progress, function_call, response_start_time, mainVars,
                 ws, sent, wpc, outq, emitted, shutlog, lastCall, hot, puts, snaps, drains, played>>

\* json.loads on the accumulated argument text: "{}" and "{k}" ({"k": ...})
\* are the JSON objects over the delta alphabet, anything else fails to parse
json_loads(text) ==
  IF text = <<"{", "}">> THEN [ok |-> TRUE, val |-> "{}"]
  ELSE IF text = <<"{", "k", "}">> THEN [ok |-> TRUE, val |-> "{k}"]
  ELSE [ok |-> FALSE, val |-> ""]

parse_args_no_fallback(text) ==
  IF text = <<>> THEN "{}" ELSE json_loads(text).val

\* handle_function_call_arguments_done lines 292-299
parse_args(text) ==
  IF text = <<>> THEN "{}"
  ELSE IF json_loads(text).ok THEN json_loads(text).val ELSE "{}"

\* tools.py: both functions take no parameters; called with **args
invoke(name, args) ==
  IF args # "{}" THEN [ok |-> FALSE, val |-> <<"TypeError">>]
  ELSE IF name = "get_current_time" THEN [ok |-> TRUE, val |-> <<"current_time", "now">>]
  ELSE [ok |-> TRUE, val |-> <<"random_number", "n">>]

execute_function_call_no_lookup(name, args) ==
  IF invoke(name, args).ok /\ name \in function_map
  THEN [invoked |-> TRUE, failed |-> FALSE, result |-> invoke(name, args).val,
        error_message |-> <<>>]
  ELSE [invoked |-> TRUE, failed |-> TRUE,
        result |-> <<"error", "Error executing function", name>> \o invoke(name, args).val,
        error_message |-> <<"Error executing function", name>> \o invoke(name, args).val]

\* execute_function_call lines 523-536: [invoked, failed, result, error_message]
execute_function_call(name, args) ==
  IF name \in function_map
  THEN IF invoke(name, args).ok
       THEN [invoked |-> TRUE, failed |-> FALSE, result |-> invoke(name, args).val,
             error_message |-> <<>>]
       ELSE [invoked |-> TRUE, failed |-> TRUE,
             result |-> <<"error", "Error executing function", name>> \o invoke(name, args).val,
             error_message |-> <<"Error executing function", name>> \o invoke(name, args).val]
  ELSE [invoked |-> FALSE, failed |-> TRUE,
        result |-> <<"error", "Function", name, "not found.">>,
        error_message |-> <<"Function", name, "not found.">>]

\* send_error_message_to_assistant
ErrorItem(error_message) ==
  [Msg(CONVERSATION_ITEM_CREATE) EXCEPT !.item = "message", !.role = "assistant",
                                        !.text = error_message]

\* execute_function_call lines 538-545
FunctionCallOutput(call_id, result) ==
  [Msg(CONVERSATION_ITEM_CREATE) EXCEPT !.item = "function_call_output",
                                        !.call_id = call_id, !.output = result]

CallSends_no_diagnostic(call_id, r) ==
  <<FunctionCallOutput(call_id, r.result), Msg(RESPONSE_CREATE)>>

CallSends_output_last(call_id, r) ==
  (IF r.failed THEN <<ErrorItem(r.error_message)>> ELSE <<>>)
  \o <<Msg(RESPONSE_CREATE), FunctionCallOutput(call_id, r.result)>>

\* the outbound events execute_function_call sends, in program order
CallSends(call_id, r) ==
  (IF r.failed THEN <<ErrorItem(r.error_message)>> ELSE <<>>)
  \o <<FunctionCallOutput(call_id, r.result), Msg(RESPONSE_CREATE)>>

\* handle_function_call_arguments_done up to the first send of
\* execute_function_call; a send on a closed handle raises ConnectionClosed,
\* which ends process_ws_messages
handle_function_call_arguments_done(c) ==
  /\ Take(c, RESPONSE_FUNCTION_CALL_ARGUMENTS_DONE) /\ Taken(c)
  /\ diag' = {}
  /\ IF function_call = <<>>
     THEN NoSend(c) /\ UNCHANGED <<sent, wpc, outq, lastCall>>
     ELSE LET name == function_call[1].name
              call_id == function_call[1].call_id
              args == parse_args(function_call_args)
              r == execute_function_call(name, args)
              msgs == CallSends(call_id, r)
          IN /\ lastCall' = [task |-> c, name |-> name, call_id |-> call_id,
                             deltas |-> deltaLog, argtext |-> function_call_args,
                             args |-> args, invoked |-> r.invoked,
                             failed |-> r.failed, result |-> r.result]
             /\ IF ws[c] = "open"
                THEN /\ sent' = [sent EXCEPT ![c] = Append(@, Head(msgs))]
                     /\ hsent' = [hsent EXCEPT ![c] = <<Head(msgs)>>]
                     /\ outq' = [outq EXCEPT ![c] = Tail(msgs)]
                     /\ wpc' = [wpc EXCEPT ![c] = "fc_send"]
                ELSE /\ wpc' = [wpc EXCEPT ![c] = "finished"]
                     /\ NoSend(c)
                     /\ UNCHANGED <<sent, outq>>
  /\ UNCHANGED <<micVars, cbVars, prompts, apiVars, mainVars, ws, emitted, shutlog,
                 deltaLog, hot, puts, snaps, drains, played>>

\* execute_function_call lines 547-552: the remaining sends, then the reset
\* of the function call state
execute_function_call_send(c) ==
  /\ TaskMayRun(c) /\ wpc[c] = "fc_send"
  /\ IF ws[c] = "open"
     THEN /\ sent' = [sent EXCEPT ![c] = Append(@, Head(outq[c]))]
          /\ hsent' = [hsent EXCEPT ![c] = Append(@, Head(outq[c]))]
          /\ outq' = [outq EXCEPT ![c] = Tail(@)]
          /\ IF Tail(outq[c]) = <<>>
             THEN /\ function_call' = <<>>
                  /\ function_call_args' = <<>>
                  /\ wpc' = [wpc EXCEPT ![c] = "recv"]
             ELSE UNCHANGED <<function_call, function_call_args, wpc>>
     ELSE /\ wpc' = [wpc EXCEPT ![c] = "finished"]
          /\ outq' = [outq EXCEPT ![c] = <<>>]
          /\ UNCHANGED <<sent, hsent, function_call, function_call_args>>
  /\ UNCHANGED <<micVars, cbVars, prompts, exit_event, assistant_reply, audio_chunks,
                 response_in_progress, response_start_time, mainVars, ws, inbox, cur,
                 emitted, shutlog, diag, deltaLog, lastCall, hot, puts, snaps, drains, played>>

handle_response_text_delta(c) ==
  /\ Take(c, RESPONSE_TEXT_DELTA) /\ Taken(c) /\ NoSend(c)
  /\ assistant_reply' = assistant_reply \o Head(inbox[c]).delta
  /\ diag' = {}
  /\ UNCHANGED <<micVars, cbVars, prompts, exit_event, audio_chunks,
                 response_in_progress, function_call, function_call_args,
                 response_start_time, mainVars, ws, sent, wpc, outq, emitted, shutlog,
                 deltaLog, lastCall, hot, puts, snaps, drains, played>>

\* event["delta"] raises KeyError when the key is missing and b64decode
\* raises binascii.Error on a malformed payload; nothing catches either
handle_response_audio_delta(c) ==
  /\ Take(c, RESPONSE_AUDIO_DELTA) /\ Taken(c) /\ NoSend(c)
  /\ LET e == Head(inbox[c]) IN
     IF e.hasDelta /\ b64decode(e.audio).ok
     THEN /\ audio_chunks' = Append(audio_chunks, b64decode(e.audio).out)
          /\ wpc' = wpc
     ELSE /\ audio_chunks' = audio_chunks
          /\ wpc' = [wpc EXCEPT ![c] = "dead"]
  /\ diag' = {}
  /\ UNCHANGED <<micVars, cbVars, prompts, exit_event, assistant_reply,
                 response_in_progress, function_call, function_call_args,
                 response_start_time, mainVars, ws, sent, outq, emitted, shutlog,
                 deltaLog, lastCall, hot, puts, snaps, drains, played>>

handle_response_done_resets_only_after_playback(c) ==
  /\ Take(c, RESPONSE_DONE) /\ Taken(c) /\ NoSend(c)
  /\ response_start_time' = None
  /\ diag' = IF response_start_time # None THEN {"runtime"} ELSE {}
  /\ wpc' = IF audio_chunks # <<>> THEN [wpc EXCEPT ![c] = "playing"] ELSE wpc
  /\ UNCHANGED <<micVars, assistant_reply, audio_chunks, cbVars, prompts, exit_event,
                 response_in_progress, function_call, function_call_args, mainVars,
                 ws, sent, outq, emitted, shutlog, deltaLog, lastCall, hot, puts, snaps, drains,
                 played>>

\* handle_response_done up to the await of play_audio_with_silence_buffer;
\* with no audio accumulated it runs to its end
handle_response_done(c) ==
  /\ Take(c, RESPONSE_DONE) /\ Taken(c) /\ NoSend(c)
  /\ response_start_time' = None
  /\ diag' = IF response_start_time # None THEN {"runtime"} ELSE {}
  /\ IF audio_chunks # <<>>
     THEN /\ wpc' = [wpc EXCEPT ![c] = "playing"]
          /\ UNCHANGED <<assistant_reply, audio_chunks, is_receiving>>
     ELSE /\ assistant_reply' = <<>>
          /\ audio_chunks' = <<>>
          /\ is_receiving' = FALSE
          /\ wpc' = wpc
  /\ UNCHANGED <<is_recording, queue, micOpen, cbVars, prompts, exit_event,
                 response_in_progress, function_call, function_call_args, mainVars,
                 ws, sent, outq, emitted, shutlog, deltaLog, lastCall, hot, puts, snaps, drains,
                 played>>

RATE == 24000
CHANNELS == 1
SILENCE_DURATION_MS == 200
\* int(RATE * SILENCE_DURATION) * CHANNELS * 2
silence_samples == ((RATE * SILENCE_DURATION_MS) \div 1000) * CHANNELS * 2

\* play_audio_with_silence_buffer returned: the joined chunks and the silence
\* pad were written; handle_response_done lines 342-345 follow
play_audio_with_silence_buffer(c) ==
  /\ TaskMayRun(c) /\ wpc[c] = "playing"
  /\ played' = Append(played, [audio |-> Concat(audio_chunks), silence |-> silence_samples])
  /\ assistant_reply' = <<>>
  /\ audio_chunks' = <<>>
  /\ is_receiving' = FALSE
  /\ wpc' = [wpc EXCEPT ![c] = "recv"]
  /\ UNCHANGED <<is_recording, queue, micOpen, cbVars, prompts, exit_event,
                 response_in_progress, function_call, function_call_args,
                 response_start_time, mainVars, ws, inbox, cur, sent, outq, emitted,
                 shutlog, hsent, diag, deltaLog, lastCall, hot, puts, snaps, drains>>

\* the output device fails (PyAudio raises): the exception leaves the handler
playback_fails(c) ==
  /\ TaskMayRun(c) /\ wpc[c] = "playing"
  /\ wpc' = [wpc EXCEPT ![c] = "dead"]
  /\ UNCHANGED <<micVars, cbVars, prompts, apiVars, mainVars, ws, inbox, cur, sent, outq,
                 emitted, obsVars>>

handle_error_always_adjusts(c) ==
  /\ Take(c, ERROR) /\ Taken(c) /\ NoSend(c)
  /\ diag' = {"error"}
  /\ response_in_progress' = TRUE
  /\ UNCHANGED <<micVars, cbVars, prompts, exit_event, assistant_reply, audio_chunks,
                 function_call, function_call_args, response_start_time, mainVars, ws,
                 sent, wpc, outq, emitted, shutlog, deltaLog, lastCall, hot, puts, snaps, drains,
                 played>>

\* error_message = event.get("error", {}).get("message", ""); the two texts
\* are looked for in turn, anything else is only logged
handle_error(c) ==
  /\ Take(c, ERROR) /\ Taken(c) /\ NoSend(c)
  /\ LET error_message == Head(inbox[c]).msg IN
     IF Contains(error_message, BUFFER_EMPTY)
     THEN /\ diag' = {"error", "buffer is empty"}
          /\ response_in_progress' = response_in_progress
     ELSE IF Contains(error_message, ACTIVE_RESPONSE)
     THEN /\ diag' = {"error", "active response"}
          /\ response_in_progress' = TRUE
     ELSE /\ diag' = {"error", "Unhandled error"}
          /\ response_in_progress' = response_in_progress
  /\ UNCHANGED <<micVars, cbVars, prompts, exit_event, assistant_reply, audio_chunks,
                 function_call, function_call_args, response_start_time, mainVars, ws,
                 sent, wpc, outq, emitted, shutlog, deltaLog, lastCall, hot, puts, snaps, drains,
                 played>>

handle_speech_started(c) ==
  /\ Take(c, INPUT_AUDIO_BUFFER_SPEECH_STARTED) /\ Taken(c) /\ NoSend(c)
  /\ diag' = {"Speech detected"}
  /\ UNCHANGED <<micVars, cbVars, prompts, apiVars, mainVars, ws, sent, wpc, outq,
                 emitted, shutlog, deltaLog, lastCall, hot, puts, snaps, drains, played>>

handle_speech_stopped_discards_queue(c) ==
  /\ Take(c, INPUT_AUDIO_BUFFER_SPEECH_STOPPED) /\ Taken(c)
  /\ is_recording' = FALSE
  /\ queue' = <<>>
  /\ response_start_time' = "perf_counter"
  /\ diag' = {"Speech ended"}
  /\ IF ws[c] = "open"
     THEN /\ sent' = [sent EXCEPT ![c] = Append(@, Msg(INPUT_AUDIO_BUFFER_COMMIT))]
          /\ hsent' = [hsent EXCEPT ![c] = <<Msg(INPUT_AUDIO_BUFFER_COMMIT)>>]
          /\ wpc' = wpc
     ELSE /\ wpc' = [wpc EXCEPT ![c] = "finished"]
          /\ NoSend(c)
          /\ sent' = sent
  /\ UNCHANGED <<is_receiving, micOpen, cbVars, prompts, exit_event,
                 assistant_reply, audio_chunks, response_in_progress, function_call,
                 function_call_args, mainVars, ws, outq, emitted, shutlog, deltaLog,
                 lastCall, hot, puts, snaps, drains, played>>

\* stop_recording(), the start timestamp, then the commit is sent
handle_speech_stopped(c) ==
  /\ Take(c, INPUT_AUDIO_BUFFER_SPEECH_STOPPED) /\ Taken(c)
  /\ is_recording' = FALSE
  /\ response_start_time' = "perf_counter"
  /\ diag' = {"Speech ended"}
  /\ IF ws[c] = "open"
     THEN /\ sent' = [sent EXCEPT ![c] = Append(@, Msg(INPUT_AUDIO_BUFFER_COMMIT))]
          /\ hsent' = [hsent EXCEPT ![c] = <<Msg(INPUT_AUDIO_BUFFER_COMMIT)>>]
          /\ wpc' = wpc
     ELSE /\ wpc' = [wpc EXCEPT ![c] = "finished"]
          /\ NoSend(c)
          /\ sent' = sent
  /\ UNCHANGED <<is_receiving, queue, micOpen, cbVars, prompts, exit_event,
                 assistant_reply, audio_chunks, response_in_progress, function_call,
                 function_call_args, mainVars, ws, outq, emitted, shutlog, deltaLog,
                 lastCall, hot, puts, snaps, drains, played>>

handle_rate_limits_updated_stops_receiving(c) ==
  /\ Take(c, RATE_LIMITS_UPDATED) /\ Taken(c) /\ NoSend(c)
  /\ response_in_progress' = FALSE
  /\ is_recording' = TRUE
  /\ is_receiving' = FALSE
  /\ diag' = {"Resumed recording"}
  /\ UNCHANGED <<queue, micOpen, cbVars, prompts, exit_event,
                 assistant_reply, audio_chunks, function_call, function_call_args,
                 response_start_time, mainVars, ws, sent, wpc, outq, emitted, shutlog,
                 deltaLog, lastCall, hot, puts, snaps, drains, played>>

\* response_in_progress = False; microphone.is_recording = True
handle_rate_limits_updated(c) ==
  /\ Take(c, RATE_LIMITS_UPDATED) /\ Taken(c) /\ NoSend(c)
  /\ response_in_progress' = FALSE
  /\ is_recording' = TRUE
  /\ diag' = {"Resumed recording"}
  /\ UNCHANGED <<is_receiving, queue, micOpen, cbVars, prompts, exit_event,
                 assistant_reply, audio_chunks, function_call, function_call_args,
                 response_start_time, mainVars, ws, sent, wpc, outq, emitted, shutlog,
                 deltaLog, lastCall, hot, puts, snaps, drains, played>>

\* handle_event, else branch: no handler is registered for the tag
handle_event_unhandled(c) ==
  /\ Take(c, None) /\ Taken(c) /\ NoSend(c)
  /\ diag' = {"Unhandled event type"}
  /\ UNCHANGED <<micVars, cbVars, prompts, apiVars, mainVars, ws, sent, wpc, outq,
                 emitted, shutlog, deltaLog, lastCall, hot, puts, snaps, drains, played>>

\* process_ws_messages: json.loads raises on the received message; only
\* ConnectionClosed is caught, so the task ends with the exception
recv_malformed(c) ==
  /\ TaskMayRun(c) /\ wpc[c] = "recv" /\ inbox[c] # <<>>
  /\ ~Head(inbox[c]).json
  /\ Taken(c)
  /\ wpc' = [wpc EXCEPT ![c] = "dead"]
  /\ UNCHANGED <<micVars, cbVars, prompts, apiVars, mainVars, ws, sent, outq, emitted,
                 obsVars>>

\* process_ws_messages: recv() raises ConnectionClosed, the loop breaks
recv_closed(c) ==
  /\ TaskMayRun(c) /\ wpc[c] = "recv" /\ inbox[c] = <<>>
  /\ ws[c] \in {"ka", "err", "ok"}
  /\ wpc' = [wpc EXCEPT ![c] = "finished"]
  /\ UNCHANGED <<micVars, cbVars, prompts, apiVars, mainVars, ws, inbox, cur, sent, outq,
                 emitted, obsVars>>

\* asyncio.run: when run() has returned, tasks still suspended are cancelled
task_cancelled(c) ==
  /\ mpc = "done"
  /\ wpc[c] \in {"recv", "fc_send", "playing"}
  /\ wpc' = [wpc EXCEPT ![c] = "cancelled"]
  /\ UNCHANGED <<micVars, cbVars, prompts, apiVars, mainVars, ws, inbox, cur, sent, outq,
                 emitted, obsVars>>

\* ------------------------------------------------------- specifications
Callback(maxFrames) == callback_enter(maxFrames) \/ callback_check \/ callback_put

\* run() up to the polling loop, the polling loop, the ways out
Startup == connect \/ initialize_session \/ start_task
Polling == poll \/ send_user_audio
Teardown == send_user_audio_finally \/ await_ws_task \/ aexit \/ finally
Run ==
  \/ Startup \/ send_initial_prompts \/ Polling \/ get_audio_data_get
  \/ Teardown \/ backoff

TaskEnds(c) == recv_malformed(c) \/ recv_closed(c) \/ task_cancelled(c)

\* turn taking: the capture thread against the turn events and the polling
\* loop, on a connection that stays up
TurnAlphabet ==
  TurnEvents
  \cup {[Ev(RESPONSE_AUDIO_DELTA) EXCEPT !.audio = b64encode(<<7>>), !.hasDelta = TRUE]}

NextTurn ==
  \/ ServerEmit(TurnAlphabet, TurnMaxEvents)
  \/ Callback(TurnMaxFrames)
  \/ Startup \/ send_initial_prompts \/ Polling \/ get_audio_data_get \/ finally
  \/ \E c \in Conns :
       \/ handle_response_created(c) \/ start_receiving(c)
       \/ handle_response_audio_delta(c)
       \/ handle_response_done(c) \/ play_audio_with_silence_buffer(c)
       \/ playback_fails(c)
       \/ handle_speech_started(c) \/ handle_speech_stopped(c)
       \/ handle_rate_limits_updated(c)

SpecTurn == Init /\ [][NextTurn]_vars

\* connection lifecycle: closures, reconnects, interrupts, failing handlers
LifeEvents ==
  {Ev(RESPONSE_CREATED), Ev(INPUT_AUDIO_BUFFER_SPEECH_STOPPED), Ev(RESPONSE_AUDIO_DELTA),
   [Ev("") EXCEPT !.json = FALSE]}

NextLife ==
  \/ ServerEmit(LifeEvents, LifeMaxEvents) \/ ServerClose({"ka", "err", "ok"}) \/ Interrupt
  \/ Callback(LifeMaxFrames)
  \/ Run
  \/ \E c \in Conns :
       \/ handle_response_created(c) \/ start_receiving(c)
       \/ handle_speech_stopped(c) \/ handle_response_audio_delta(c)
       \/ TaskEnds(c)

SpecLife == Init /\ [][NextLife]_vars

\* function calls: microphone mode, the device silent, closures that are
\* not keepalive timeouts (so run() never reconnects)
CallEvents ==
  FunctionCallEvents
  \cup {Ev(RESPONSE_CREATED), Ev(RESPONSE_DONE), Ev(RATE_LIMITS_UPDATED),
        [Ev(RESPONSE_TEXT_DELTA) EXCEPT !.delta = <<"Hi">>, !.hasDelta = TRUE]}

InitCall == Init /\ prompts = <<>>

NextCall ==
  \/ ServerEmit(CallEvents, CallMaxEvents) \/ ServerClose({"err"})
  \/ Startup \/ Polling \/ aexit \/ finally
  \/ \E c \in Conns :
       \/ handle_output_item_added(c)
       \/ handle_function_call_arguments_delta(c)
       \/ handle_function_call_arguments_done(c) \/ execute_function_call_send(c)
       \/ handle_response_created(c) \/ start_receiving(c)
       \/ handle_response_done(c) \/ handle_rate_limits_updated(c)
       \/ handle_response_text_delta(c)
       \/ recv_closed(c)

SpecCall == InitCall /\ [][NextCall]_vars

\* one response after another on a connection that stays up: text and audio
\* accumulation, playback, a function call, tags nobody registered;
\* microphone mode with a silent device
ReplyEvents ==
  {Ev(RESPONSE_CREATED), Ev(RESPONSE_DONE), Ev(INPUT_AUDIO_BUFFER_SPEECH_STOPPED),
   [Ev(RESPONSE_TEXT_DELTA) EXCEPT !.delta = <<"Hi">>, !.hasDelta = TRUE],
   [Ev(RESPONSE_AUDIO_DELTA) EXCEPT !.audio = b64encode(<<7>>), !.hasDelta = TRUE],
   [Ev(RESPONSE_OUTPUT_ITEM_ADDED) EXCEPT
      !.item = [type |-> "function_call", name |-> "get_current_time", call_id |-> "call_1"]],
   Ev(RESPONSE_FUNCTION_CALL_ARGUMENTS_DONE),
   Ev(SESSION_CREATED), Ev(None)}

NextReply ==
  \/ ServerEmitBuffered(ReplyEvents, ReplyMaxEvents, ReplyMaxInbox)
  \/ Startup \/ Polling \/ finally
  \/ \E c \in Conns :
       \/ handle_response_created(c) \/ start_receiving(c)
       \/ handle_response_text_delta(c) \/ handle_response_audio_delta(c)
       \/ handle_speech_stopped(c)
       \/ handle_response_done(c) \/ play_audio_with_silence_buffer(c)
       \/ playback_fails(c)
       \/ handle_output_item_added(c)
       \/ handle_function_call_arguments_done(c) \/ execute_function_call_send(c)
       \/ handle_event_unhandled(c)

SpecReply == InitCall /\ [][NextReply]_vars

\* error events against a session whose gates, pending call and accumulators
\* hold something: microphone mode with a silent device, the connection up
ErrorAlphabet ==
  ErrorEvents
  \cup {Ev(RESPONSE_CREATED), Ev(INPUT_AUDIO_BUFFER_SPEECH_STOPPED),
        [Ev(RESPONSE_OUTPUT_ITEM_ADDED) EXCEPT
           !.item = [type |-> "function_call", name |-> "get_current_time", call_id |-> "call_1"]],
        [Ev(RESPONSE_FUNCTION_CALL_ARGUMENTS_DELTA) EXCEPT !.delta = <<"{">>, !.hasDelta = TRUE],
        [Ev(RESPONSE_TEXT_DELTA) EXCEPT !.delta = <<"Hi">>, !.hasDelta = TRUE],
        [Ev(RESPONSE_AUDIO_DELTA) EXCEPT !.audio = b64encode(<<7>>), !.hasDelta = TRUE]}

NextError ==
  \/ ServerEmit(ErrorAlphabet, ErrMaxEvents)
  \/ Startup \/ Polling \/ finally
  \/ \E c \in Conns :
       \/ handle_error(c)
       \/ handle_response_created(c) \/ start_receiving(c)
       \/ handle_speech_stopped(c)
       \/ handle_output_item_added(c) \/ handle_function_call_arguments_delta(c)
       \/ handle_response_text_delta(c) \/ handle_response_audio_delta(c)

SpecError == InitCall /\ [][NextError]_vars

\* sessions one after another: both modes, a capturing device, keepalive
\* timeouts and reconnects, abrupt closures at any time
SessionEvents == {Ev(RATE_LIMITS_UPDATED), Ev(INPUT_AUDIO_BUFFER_SPEECH_STOPPED)}

NextSession ==
  \/ ServerEmit(SessionEvents, SessMaxEvents)
  \/ KeepaliveTimeout \/ ServerClose({"err"})
  \/ Callback(SessMaxFrames)
  \/ Run
  \/ \E c \in Conns :
       \/ handle_rate_limits_updated(c) \/ handle_speech_stopped(c)
       \/ recv_closed(c) \/ task_cancelled(c)

SpecSession == Init /\ [][NextSession]_vars

\* recovery and termination: prompts mode (capture is never started, so the
\* device callback discards every frame and is left out), keepalive
\* closures, failing handlers. The event loop runs every coroutine that is
\* ready, hence weak fairness of run() and of the inbound tasks; the server
\* and the user owe nothing.
FairEvents ==
  {Ev(RESPONSE_AUDIO_DELTA),
   [Ev(RESPONSE_AUDIO_DELTA) EXCEPT !.audio = b64encode(<<7>>), !.hasDelta = TRUE]}

InitFair == Init /\ prompts # <<>>

MainSteps == Startup \/ send_initial_prompts \/ Polling \/ Teardown \/ backoff

TaskSteps == \E c \in Conns : handle_response_audio_delta(c) \/ recv_closed(c)

NextFair ==
  \/ ServerEmit(FairEvents, FairMaxEvents) \/ ServerClose({"ka"}) \/ Interrupt
  \/ MainSteps
  \/ TaskSteps

SpecFair == InitFair /\ [][NextFair]_vars /\ WF_vars(MainSteps) /\ WF_vars(TaskSteps)

\* ------------------------------------------------------- claims
\* C1. Turn mutual exclusion: the user-capture state (is_recording) and the
\* assistant-responding state (is_receiving) never hold at the same time.
\* The two writes of start_receiving are taken as one transition, so the
\* state between them is not counted against the claim.
C1_TurnMutualExclusion ==
  (\A c \in Conns : ~TaskRunning(c)) => ~(is_recording /\ is_receiving)

\* the bytes get_audio_data has returned or is collecting
Drained == {data[i] : i \in 1..Len(data)}
           \cup UNION {{drains[k][i] : i \in 1..Len(drains[k])} : k \in 1..Len(drains)}

\* C2. A frame the capture callback enqueues while is_receiving is true (hot)
\* is never returned by a later get_audio_data.
C2_ReceivingFramesNeverDrained == hot \cap Drained = {}

\* C3. The argument text used at response.function_call_arguments.done is the
\* concatenation, in arrival order, of the deltas received since the
\* function_call item was added, whatever other events came in between; the
\* same holds of the accumulator while the call is pending.
C3_ArgumentsAreDeltasInOrder ==
  /\ function_call # <<>> => function_call_args = Concat(deltaLog)
  /\ lastCall.task # 0 => lastCall.argtext = Concat(lastCall.deltas)

C3_Witness ==
  /\ lastCall.task # 0
  /\ Len(lastCall.deltas) >= 2
  /\ lastCall.argtext = <<"{", "}">>

\* the handler task c started last executed a function call and is over
\* (returned, or was left through an exception)
CallOver(c) == cur[c].call /\ lastCall.task = c /\ wpc[c] # "fc_send"

TwoSends(c) ==
  /\ hsent[c] = <<FunctionCallOutput(lastCall.call_id, lastCall.result), Msg(RESPONSE_CREATE)>>
  /\ function_call = <<>>
  /\ function_call_args = <<>>

\* C4 as stated. When arguments.done arrives with a pending call and the
\* function succeeds, exactly two events are sent, function_call_output with
\* the pending call_id and then response.create, and the pending call and
\* the accumulator are cleared.
C4_Original ==
  \A c \in Conns : CallOver(c) /\ ~lastCall.failed => TwoSends(c)

\* C4 as amended: the same, when the handler returned, that is when the
\* connection accepted every send.
C4_TwoSendsThenCleared ==
  \A c \in Conns : CallOver(c) /\ ~lastCall.failed /\ wpc[c] = "recv" => TwoSends(c)

C4_Witness ==
  \E c \in Conns : CallOver(c) /\ ~lastCall.failed /\ wpc[c] = "recv"
                   /\ lastCall.call_id = "call_1" /\ Len(hsent[c]) = 2

\* the structured error results of execute_function_call
ErrorResult ==
  /\ lastCall.result[1] = "error"
  /\ lastCall.name \notin function_map =>
       /\ ~lastCall.invoked
       /\ lastCall.result = <<"error", "Function", lastCall.name, "not found.">>

\* function_call_output with the call's id and result, then response.create
OutputThenCreate(c) ==
  \E i, j \in 1..Len(hsent[c]) :
    /\ i < j
    /\ hsent[c][i] = FunctionCallOutput(lastCall.call_id, lastCall.result)
    /\ hsent[c][j] = Msg(RESPONSE_CREATE)

\* C5 as stated. A call that fails (unknown name, or the invocation raises)
\* yields a structured error result, the function_call_output and the
\* response.create are still sent, and the inbound loop continues.
C5_Original ==
  \A c \in Conns : CallOver(c) /\ lastCall.failed =>
    ErrorResult /\ OutputThenCreate(c) /\ wpc[c] = "recv"

\* C5 as amended: the error result always; no exception other than the
\* connection's ConnectionClosed leaves the handler; and when the connection
\* accepted the sends, both events were sent and the loop continues.
C5_FailuresBecomeErrorResults ==
  \A c \in Conns : CallOver(c) /\ lastCall.failed =>
    /\ ErrorResult
    /\ wpc[c] \in {"recv", "finished"}
    /\ wpc[c] = "recv" => OutputThenCreate(c)

C5_Witness ==
  \E c \in Conns : CallOver(c) /\ lastCall.failed /\ wpc[c] = "recv"
                   /\ lastCall.name \in function_map /\ lastCall.invoked

\* the session on connection c is Active: initialised, polling, not closing
Active(c) == cid = c /\ mpc = "poll" /\ ~exit_event

\* C6. A keepalive-timeout closure while the session is Active is always
\* followed by a new connection attempt, whether the inbound loop or an
\* outbound send observes it.
C6_KeepaliveLeadsToReconnect ==
  \A c \in Conns : (Active(c) /\ ws[c] = "ka") ~> (cid > c)

\* C7. On the connection opened by a reconnect every piece of turn state and
\* every accumulator holds its initial value, and the exit flag is not set.
C7_StateInitialAfterReconnect ==
  (cid > 1 /\ mpc = "init") =>
    /\ ~is_recording /\ ~is_receiving
    /\ ~response_in_progress
    /\ function_call = <<>> /\ function_call_args = <<>>
    /\ assistant_reply = <<>> /\ audio_chunks = <<>>
    /\ response_start_time = None
    /\ ~exit_event

\* C8. When run() has ended after a connection handle was opened, the
\* shutdown steps were taken in the order stop capture, close the capture
\* device, close the connection handle.
C8_ShutdownOrder ==
  (mpc = "done" /\ \E i \in 1..Len(shutlog) : shutlog[i] = "ws_close") =>
    /\ Len(shutlog) >= 3
    /\ SubSeq(shutlog, 1, 3) = <<"stop_recording", "mic_close", "ws_close">>

\* C9. A failure raised inside a registered event handler does not end the
\* inbound loop.
C9_HandlerFailureIsCaught ==
  \A c \in Conns : cur[c].type \in Registered => wpc[c] # "dead"

\* C10. An exception during Active that is not a keepalive timeout (here: one
\* that ended the inbound task) terminates the run loop.
C10_FatalExceptionEndsRun ==
  \A c \in Conns : (Active(c) /\ wpc[c] = "dead") ~> (mpc = "done")

\* task c takes the next message off its connection and dispatches it to the
\* handler registered for tag t
Dispatched(c, t) ==
  /\ inbox[c] # <<>> /\ Len(inbox'[c]) < Len(inbox[c])
  /\ Head(inbox[c]).json /\ get_handler(Head(inbox[c]).type) = t

\* the latest handler of task c was the one for tag t and it has returned
Returned(c, t) == cur[c].type = t /\ wpc[c] = "recv"

ReplyReset ==
  /\ assistant_reply = <<>> /\ audio_chunks = <<>>
  /\ response_start_time = None
  /\ ~is_receiving

\* C11. When the response.done handler has returned, whatever was accumulated
\* before, the text reply and the audio chunk list are empty, the start
\* timestamp is cleared and receive mode is off; a response.done handled in
\* that state changes nothing of the microphone or session state.
C11_ResponseDoneResets ==
  /\ [](\A c \in Conns : Returned(c, RESPONSE_DONE) => ReplyReset)
  /\ [][\A c \in Conns : Dispatched(c, RESPONSE_DONE) /\ ReplyReset
          => UNCHANGED <<micVars, apiVars>> /\ wpc'[c] = "recv"]_vars

C11_Witness ==
  \E c \in Conns : Returned(c, RESPONSE_DONE) /\ Len(played) = 1 /\ ReplyReset
                   /\ response_in_progress

\* C12. In a microphone-mode session that is polling, once the response.done
\* handler has returned after a response.created (response_in_progress is
\* set by handle_response_created and cleared only by rate_limits.updated),
\* capture is eligible again: a delivered frame would be enqueued, that is
\* is_recording is true and is_receiving is false.
C12_ResponseDoneResumesCapture ==
  \A c \in Conns :
    /\ prompts = <<>> /\ cid = c /\ mpc \in {"poll", "drain"} /\ ~exit_event
    /\ Returned(c, RESPONSE_DONE) /\ response_in_progress
    => is_recording /\ ~is_receiving

\* C13. When the response.created handler has returned, is_recording is
\* false, is_receiving is true and response_in_progress is true. A frame is
\* enqueued only by a callback that, after the frame's delivery, read
\* is_receiving as false: a frame delivered while receive mode is on is not
\* enqueued before receive mode has been turned off.
C13_ResponseCreatedLeavesCapture ==
  /\ [](\A c \in Conns : Returned(c, RESPONSE_CREATED) =>
          ~is_recording /\ is_receiving /\ response_in_progress)
  /\ [][/\ Len(queue') > Len(queue) => cbpc = "put"
        /\ (cbpc' = "put" /\ cbpc # "put") => (cbpc = "chk" /\ ~is_receiving)
        /\ frames' # frames => cbpc' # "put"]_vars

C13_Witness ==
  \E c \in Conns : Returned(c, RESPONSE_CREATED) /\ is_receiving
                   /\ cbpc = "chk" /\ cbFrame = frames

\* the frames the callback has enqueued that no finished drain has returned
Pending == SubSeq(puts, Len(Concat(drains)) + 1, Len(puts))

\* C14. The frames the callback accepted are returned by get_audio_data as
\* their concatenation in arrival order: what the drains returned, what the
\* running drain holds and what is still queued make up the accepted frames
\* in order. A drain that finds nothing returns None: nothing is sent.
C14_DrainReturnsConcatenation ==
  /\ [](Concat(drains) \o data \o Concat(queue) = puts)
  /\ [][(mpc = "drain" /\ mpc' # "drain" /\ data = <<>>)
          => (drains' = drains /\ sent' = sent /\ mpc' = "poll")]_vars

C14_Witness ==
  /\ drains = <<<<1, 2>>>> /\ puts = <<1, 2>>
  /\ mpc = "drain" /\ queue = <<>> /\ data = <<>>

\* frames in enqueue order (the device numbers them), none twice
Increasing(fs) == \A i, j \in 1..Len(fs) : i < j => fs[i] < fs[j]

ReturnedOnce ==
  LET all == Concat(drains) \o data \o Concat(queue)
  IN /\ Len(all) = Len(puts)
     /\ {all[i] : i \in 1..Len(all)} = {puts[i] : i \in 1..Len(puts)}
     /\ Increasing(all)

\* get_audio_data returns a non-empty result
DrainReturns == mpc = "drain" /\ mpc' # "drain" /\ data # <<>>

\* C15 as stated. Under every interleaving of the callback with the drain
\* loop, each enqueued frame is returned by exactly one drain, in enqueue
\* order, and each drain result is a content the queue had at some instant
\* of that drain.
C15_Original ==
  /\ []ReturnedOnce
  /\ [][DrainReturns => data \in snaps]_vars

\* C15 as amended: the drain result is the sequence of frames enqueued and
\* not yet returned at the instant of the drain's last emptiness test.
C15_DrainIsLinearizable ==
  /\ []ReturnedOnce
  /\ [][DrainReturns => data = Pending]_vars

C15_Witness ==
  /\ mpc = "drain" /\ queue = <<>> /\ data = <<1, 2>>
  /\ data \notin snaps

\* the argument text of the latest call is empty or json.loads rejects it
BadArgs == lastCall.argtext = <<>> \/ ~json_loads(lastCall.argtext).ok

EmptyRecordUsed ==
  /\ lastCall.args = "{}"
  /\ lastCall.name \in function_map => lastCall.invoked /\ ~lastCall.failed

\* C16 as stated. With an empty or unparsable argument text at
\* arguments.done the arguments are {} and the named function is still
\* executed; it is never fatal, and the function_call_output and the
\* response.create are still sent.
C16_Original ==
  \A c \in Conns : CallOver(c) /\ BadArgs =>
    EmptyRecordUsed /\ OutputThenCreate(c) /\ wpc[c] = "recv"

\* C16 as amended: the same, the two events being sent when the connection
\* accepts the sends; a closed connection ends the inbound loop.
C16_BadArgumentsBecomeEmptyRecord ==
  \A c \in Conns : CallOver(c) /\ BadArgs =>
    /\ EmptyRecordUsed
    /\ wpc[c] \in {"recv", "finished"}
    /\ wpc[c] = "recv" => OutputThenCreate(c)

C16_Witness ==
  \E c \in Conns : CallOver(c) /\ wpc[c] = "recv" /\ lastCall.argtext = <<"}">>
                   /\ lastCall.name = "get_current_time" /\ ~lastCall.failed
                   /\ Len(hsent[c]) = 2

\* the outbound events of a failed call: the diagnostic message, the
\* function_call_output, the response.create
FailureSends ==
  <<ErrorItem(execute_function_call(lastCall.name, lastCall.args).error_message),
    FunctionCallOutput(lastCall.call_id, lastCall.result),
    Msg(RESPONSE_CREATE)>>

\* C17 as stated. Whenever a function call fails, the handler sends the
\* assistant-authored diagnostic message, then the function_call_output with
\* the call id, then the response.create.
C17_Original ==
  \A c \in Conns : CallOver(c) /\ lastCall.failed => hsent[c] = FailureSends

\* C17 as amended: what the handler sent is an initial part of that
\* sequence, and all of it when the connection accepted every send.
C17_DiagnosticBeforeOutput ==
  \A c \in Conns : CallOver(c) /\ lastCall.failed =>
    /\ Len(hsent[c]) <= 3 /\ hsent[c] = SubSeq(FailureSends, 1, Len(hsent[c]))
    /\ wpc[c] = "recv" => hsent[c] = FailureSends

C17_Witness ==
  \E c \in Conns : CallOver(c) /\ lastCall.failed /\ wpc[c] = "recv"
                   /\ lastCall.name \notin function_map
                   /\ hsent[c][1].role = "assistant" /\ Len(hsent[c]) = 3

\* task c takes off its connection a decodable message whose tag nobody
\* registered (a missing type is the tag None)
TakesUnregistered(c) ==
  /\ inbox[c] # <<>> /\ Len(inbox'[c]) < Len(inbox[c])
  /\ Head(inbox[c]).json /\ Head(inbox[c]).type \notin Registered

\* C18. An event with an unregistered or missing type is reported as
\* unhandled and changes nothing: no microphone or session field, nothing
\* sent, and the inbound loop is back at recv().
C18_UnhandledEventsAreTolerated ==
  [][\A c \in Conns : TakesUnregistered(c) =>
       /\ UNCHANGED <<micVars, apiVars, sent, outq, played>>
       /\ hsent'[c] = <<>>
       /\ diag' = {"Unhandled event type"}
       /\ wpc'[c] = "recv"]_vars

C18_Witness ==
  \E c \in Conns : Returned(c, None) /\ diag = {"Unhandled event type"}
                   /\ audio_chunks # <<>> /\ is_receiving

\* the handler task c dispatched last has not returned: it is between the
\* two writes of start_receiving, awaiting playback, or awaiting a send
InHandler(c) == wpc[c] \in {"rc2", "playing", "fc_send"}

\* C19. A task takes a message off its connection only when its previous
\* handler has returned, and the message it takes is the oldest unread one;
\* no two handlers are in progress at once.
C19_OneHandlerAtATimeInOrder ==
  /\ [](\A c, d \in Conns : InHandler(c) /\ InHandler(d) => c = d)
  /\ [][\A c \in Conns : (inbox[c] # <<>> /\ Len(inbox'[c]) < Len(inbox[c])) =>
          /\ wpc[c] = "recv"
          /\ inbox'[c] = Tail(inbox[c])
          /\ cur'[c].type = Head(inbox[c]).type]_vars

C19_Witness ==
  \E c \in Conns : wpc[c] = "playing" /\ Len(inbox[c]) = 2
                   /\ inbox[c][1].type # inbox[c][2].type

\* what run() itself sent on the current connection (the handlers of SpecTurn
\* send only input_audio_buffer.commit)
NotCommit(m) == m.type # INPUT_AUDIO_BUFFER_COMMIT
SentByRun == SelectSeq(sent[cid], NotCommit)

\* C20. In a session started with prompts capture is skipped: no frame is
\* ever enqueued, no input_audio_buffer.append is ever sent, and after the
\* session.update the prompts go out as one conversation.item.create
\* followed by a response.create, and run() sends nothing else.
C20_PromptsModeSkipsCapture ==
  prompts # <<>> =>
    /\ puts = <<>>
    /\ \A c \in Conns : \A i \in 1..Len(sent[c]) :
         sent[c][i].type # INPUT_AUDIO_BUFFER_APPEND
    /\ mpc \in {"poll", "drain"} => SentByRun = <<Msg(SESSION_UPDATE), PromptItem, Msg(RESPONSE_CREATE)>>

\* C21. An error event whose message holds the "buffer is empty" text changes
\* nothing of the session: the gates, response_in_progress, the pending call
\* and the accumulators keep their values, nothing is sent and the inbound
\* loop is back at recv(). A message with the active-response text (and not
\* the first text, which the handler tests first) changes response_in_progress
\* only, to true. Any other message changes nothing and the loop goes on.
C21_ErrorEventFrame ==
  [][\A c \in Conns : Dispatched(c, ERROR) =>
       LET m == Head(inbox[c]).msg IN
       /\ UNCHANGED <<micVars, exit_event, assistant_reply, audio_chunks, function_call,
                      function_call_args, response_start_time, mainVars, sent, outq, played>>
       /\ wpc'[c] = "recv"
       /\ response_in_progress' =
            IF ~Contains(m, BUFFER_EMPTY) /\ Contains(m, ACTIVE_RESPONSE)
            THEN TRUE ELSE response_in_progress]_vars

C21_Witness ==
  \E c \in Conns : Returned(c, ERROR) /\ diag = {"error", "active response"}
                   /\ emitted = 1 /\ response_in_progress /\ mpc = "poll"

\* the inbound loop of connection c has ended and run() has gone through its
\* finally clause for that connection
LoopsEnded(c) ==
  /\ wpc[c] \in {"finished", "dead", "cancelled"}
  /\ cid > c \/ (cid = c /\ mpc \in {"connect", "done"})

\* C22. Once the connection of a polling session is closed or the exit flag
\* is set, the inbound loop and the outbound-audio loop both end and run()
\* reaches its cleanup, the event loop scheduling every ready coroutine.
C22_ClosureEndsActive ==
  \A c \in Conns :
    (cid = c /\ mpc = "poll" /\ (ws[c] # "open" \/ exit_event)) ~> LoopsEnded(c)

\* the number of input_audio_buffer.append events in a sequence of sent events
IsAppend(m) == m.type = INPUT_AUDIO_BUFFER_APPEND
Appends(ms) == Len(SelectSeq(ms, IsAppend))

\* a response is being received or played: the response.created handler has
\* returned and stop_receiving has not yet been called
Replying == is_receiving /\ \A c \in Conns : wpc[c] # "rc2"

\* C23. Receive mode stays on until play_audio_with_silence_buffer has
\* returned, and from the return of the response.created handler to the end
\* of that response's playback no frame is enqueued and no
\* input_audio_buffer.append is sent.
C23_PlaybackBeforeCapture ==
  [][/\ (is_receiving /\ ~is_receiving') => \A c \in Conns : wpc'[c] # "playing"
     /\ Replying =>
         /\ puts' = puts
         /\ \A c \in Conns : Appends(sent'[c]) = Appends(sent[c])]_vars

\* the seed-prompt events among the sent events of connection c
IsSeedItem(m) == m = PromptItem
IsResponseCreate(m) == m.type = RESPONSE_CREATE
SeedItems(c) == Len(SelectSeq(sent[c], IsSeedItem))
SeedCreates(c) == Len(SelectSeq(sent[c], IsResponseCreate))

\* C24. Over the whole run, reconnects included, the seed-prompt
\* conversation.item.create is sent at most once and its response.create at
\* most once, the item first (run() sends no other response.create here).
C24_PromptsSentOnce ==
  /\ \A c \in Conns : SeedItems(c) <= 1 /\ SeedCreates(c) <= SeedItems(c)
  /\ \A c, d \in Conns : (SeedItems(c) > 0 /\ SeedItems(d) > 0) => c = d

\* a step that sends input_audio_buffer.append events on connection c
SendsAppend(c) == Appends(sent'[c]) > Appends(sent[c])

\* C25. get_audio_data runs only in a poll that found is_receiving false, and
\* is_receiving stays false while it runs. An input_audio_buffer.append is
\* sent only at the end of such a drain, when the chunk is not empty; it
\* carries the base64 text of the chunk, which is not empty, and it is the
\* only event of that poll: the loop then sleeps again.
C25_AppendOnlyAfterNonEmptyDrain ==
  /\ [](mpc = "drain" => ~is_receiving)
  /\ [][\A c \in Conns : SendsAppend(c) =>
          /\ c = cid /\ mpc = "drain" /\ queue = <<>> /\ data # <<>>
          /\ sent'[c] = Append(sent[c], AppendMsg(data))
          /\ AppendMsg(data).audio # <<>>
          /\ b64decode(AppendMsg(data).audio).out = data
          /\ mpc' = "poll"]_vars

C25_Witness ==
  /\ mpc = "poll" /\ is_receiving /\ queue # <<>> /\ drains # <<>>
  /\ Appends(sent[cid]) = 1

IsSessionUpdate(m) == m.type = SESSION_UPDATE
SessionUpdates(c) == Len(SelectSeq(sent[c], IsSessionUpdate))

\* connection c was opened and run() has gone past initialize_session on it
Initialized(c) == ws[c] # "none" /\ (c < cid \/ (c = cid /\ mpc # "init"))

\* C26 as stated. On every connection exactly one session.update is sent, it
\* is the first event sent on the connection, and when it has been sent the
\* inbound loop has not started and no event has been received.
C26_Original ==
  \A c \in Conns :
    /\ Initialized(c) => SessionUpdates(c) = 1 /\ sent[c][1] = Msg(SESSION_UPDATE)
    /\ (c = cid /\ mpc = "start") => wpc[c] = "none" /\ cur[c].type = ""

\* C26 as amended: at most one session.update, first of whatever is sent,
\* and the inbound loop starts only after it; it is missing only on a
\* connection that was already closed when run() tried to send it, and on
\* such a connection nothing is sent and no inbound loop is started.
C26_SessionUpdateFirst ==
  \A c \in Conns :
    /\ SessionUpdates(c) <= 1
    /\ sent[c] # <<>> => sent[c][1] = Msg(SESSION_UPDATE)
    /\ wpc[c] # "none" => SessionUpdates(c) = 1
    /\ (Initialized(c) /\ SessionUpdates(c) = 0) => ws[c] \notin {"none", "open"}
    /\ (c = cid /\ mpc = "start") =>
         sent[c] = <<Msg(SESSION_UPDATE)>> /\ wpc[c] = "none" /\ cur[c].type = ""

C26_Witness ==
  /\ cid = 2 /\ mpc = "poll"
  /\ Len(sent[1]) >= 3 /\ Len(sent[2]) >= 3
  /\ SessionUpdates(1) = 1 /\ SessionUpdates(2) = 1

\* C27. The rate_limits.updated handler, from whatever state, leaves
\* response_in_progress false and is_recording true, and changes nothing
\* else: is_receiving, the queue, the pending call, its argument text, the
\* reply accumulators and the start timestamp keep their values, nothing is
\* sent, and the inbound loop is back at recv().
C27_RateLimitsFrame ==
  [][\A c \in Conns : Dispatched(c, RATE_LIMITS_UPDATED) =>
       /\ ~response_in_progress' /\ is_recording'
       /\ UNCHANGED <<is_receiving, queue, micOpen, exit_event, function_call,
                      function_call_args, assistant_reply, audio_chunks,
                      response_start_time, sent, outq>>
       /\ wpc'[c] = "recv"]_vars

C27_Witness ==
  \E c \in Conns : Returned(c, RATE_LIMITS_UPDATED)
                   /\ is_receiving /\ function_call # <<>> /\ assistant_reply # <<>>
                   /\ is_recording /\ ~response_in_progress

\* run() is inside the loop of send_user_audio
InLoop == mpc \in {"poll", "drain"}

C30_DetachedDeltasNeverExecuted ==
  /\ [][\A c \in Conns :
          /\ (Dispatched(c, RESPONSE_FUNCTION_CALL_ARGUMENTS_DONE) /\ function_call = <<>>) =>
               /\ UNCHANGED <<function_call, function_call_args, lastCall, sent, outq>>
               /\ wpc'[c] = "recv"
          /\ (Dispatched(c, RESPONSE_OUTPUT_ITEM_ADDED)
               /\ Head(inbox[c]).item.type = "function_call") =>
               /\ function_call_args' = <<>>
               /\ function_call' = <<Head(inbox[c]).item>>]_vars
  /\ [](lastCall.task # 0 => lastCall.argtext = Concat(lastCall.deltas))

C30_Witness ==
  \E c \in Conns :
    /\ Returned(c, RESPONSE_FUNCTION_CALL_ARGUMENTS_DONE) /\ ~cur[c].call
    /\ function_call = <<>> /\ function_call_args = <<"{">>
    /\ lastCall.task = 0 /\ sent[c] = <<Msg(SESSION_UPDATE)>>

====
